---- MODULE Spec2Model ----
(***************************************************************************)
(* Verification model of the discounting-model core: the choice rules of   *)
(* decision_funcs.py, the hyperbolic valuation of subj_value_funcs.py, the *)
(* maximum-likelihood fit of fit_model.py and the orchestration script     *)
(* main.py.                                                                *)
(*                                                                         *)
(* Numbers.  The code computes in IEEE doubles.  The model computes in     *)
(* exact rationals <<n, d>> (d > 0, lowest terms); np.exp and np.log are   *)
(* the base-2 exponential and logarithm, exact at powers of two and        *)
(* linearly interpolated in between, and their results are rounded to a    *)
(* mantissa of MantissaSteps steps per binade, as a double rounds to 2^52  *)
(* steps.  Both are monotone, ExpF(0) = 1 and LogF(1) = 0.  np.exp         *)
(* overflows to inf and underflows to 0 outside [-ExpMax, ExpMax), as a    *)
(* double does outside [-745, 709]; inside, ExpF is strictly positive.     *)
(***************************************************************************)
EXTENDS Integers, Sequences, FiniteSets, TLC

\* ------------------------------------------------------------------ bounds

\* steps of the mantissa of a rounded result (a double has 2^52)
MantissaSteps == 4
\* subjective values handed to the choice rules are multiples of 1/ValueGrid
ValueGrid == 16
\* largest choice consistency handed to the choice rules directly
MaxBeta == 2
\* largest number of options of the multi-alternative rule
MaxOptions == 3
\* largest number of observations of a dataset
MaxObs == 2
\* iteration cap of the minimizer (options maxiter of scipy.optimize.minimize)
MaxIter == 3
\* the clip bounds 1e-10 and 1 - 1e-10, scaled to the model's precision:
\* probabilities are clipped into [1/ClipDen, 1 - 1/ClipDen]
ClipDen == 64
\* fixed-point unit of a logarithm: LogF returns multiples of 1/LogUnit
LogUnit == 8
\* np.exp overflows to inf above ExpMax and underflows to 0 below -ExpMax
\* (709 and -745 for a double)
ExpMax == 20

\* ------------------------------------------------------- program constants

\* initial_guess = [np.log(0.01), np.log(1.0)], on the model's base-2 integer
\* grid of log-parameters: 2^-7 = 0.0078, 2^0 = 1
InitLogK == -7
InitLogBeta == 0

\* --------------------------------------------------------------- rationals

RECURSIVE Gcd(_, _)
Gcd(a, b) == IF b = 0 THEN a ELSE Gcd(b, a % b)

Abs(n) == IF n < 0 THEN -n ELSE n

RECURSIVE Pow2(_)
Pow2(n) == IF n <= 0 THEN 1 ELSE 2 * Pow2(n - 1)

\* the rational n/d in lowest terms with a positive denominator
Rat(n, d) ==
  LET s == IF d < 0 THEN -1 ELSE 1
      g == Gcd(Abs(n), Abs(d))
  IN  <<(s * n) \div g, (s * d) \div g>>

RInt(n) == <<n, 1>>
\* the double inf, which only an overflowing np.exp produces
Inf == <<1, 0>>
RAdd(x, y) ==
  IF x = Inf \/ y = Inf THEN Inf
  ELSE Rat(x[1] * y[2] + y[1] * x[2], x[2] * y[2])
RSub(x, y) == Rat(x[1] * y[2] - y[1] * x[2], x[2] * y[2])
RMul(x, y) == Rat(x[1] * y[1], x[2] * y[2])
RDiv(x, y) ==
  IF y = Inf THEN <<0, 1>> ELSE Rat(x[1] * y[2], x[2] * y[1])
RNeg(x) == <<-x[1], x[2]>>
RLe(x, y) == x[1] * y[2] <= y[1] * x[2]
RLt(x, y) == x[1] * y[2] < y[1] * x[2]
RGe(x, y) == RLe(y, x)
RPos(x) == x[1] > 0
Half == <<1, 2>>
One == <<1, 1>>

\* np.exp: 2^x, linearly interpolated between integer arguments, the
\* mantissa rounded to the nearest of MantissaSteps steps
ExpF(x) ==
  LET q == x[1] \div x[2]
      f == x[1] - q * x[2]
      r == (f * MantissaSteps + x[2] \div 2) \div x[2]
  IN  IF q >= ExpMax THEN Inf
      ELSE IF q < -ExpMax THEN <<0, 1>>
      ELSE IF q >= 0 THEN Rat(Pow2(q) * (MantissaSteps + r), MantissaSteps)
      ELSE Rat(MantissaSteps + r, MantissaSteps * Pow2(-q))

\* the largest q with 2^q * n <= d
RECURSIVE Log2Floor(_, _)
Log2Floor(n, d) == IF 2 * n > d THEN 0 ELSE 1 + Log2Floor(2 * n, d)

\* np.log of a probability p in (0, 1], in units of 1/LogUnit: minus the
\* base-2 logarithm of 1/p, linearly interpolated between powers of two
LogF(p) ==
  LET q == Log2Floor(p[1], p[2])
      m == Pow2(q) * p[1]
  IN  -(q * LogUnit + ((p[2] - m) * LogUnit) \div m)

\* ------------------------------------------------------------ choice rules

\* How a value reaches a choice rule: a Python scalar, a numpy array (a batch
\* that takes the scalar branch) or a polars expression over a frame's rows.
Kinds == {"scalar", "ndarray", "expr"}

\* isinstance(v, (pl.Expr, pl.Series))
IsPolars(kind) == kind = "expr"

Seq1(n) == 1 .. n
\* (a function [i \in 1 .. n |-> e] is written e \o <<>> where TLC should
\* evaluate its elements once, as the tuple they form)

\* Variant: the comparison written strictly: a tie goes to outcome_2
WhenAboveHalf(prb) == IF RLt(Half, prb) THEN "outcome_1" ELSE "outcome_2"

\* pl.when(choice_prb >= 0.5).then("outcome_1").otherwise("outcome_2")
WhenAtLeastHalf(prb) == IF RGe(prb, Half) THEN "outcome_1" ELSE "outcome_2"

\* expression branch: 1 / (1 + (choice_consistency * (v2 - v1)).exp())
TwoOutcomePrbExpr(v1, v2, cc) ==
  RDiv(One, RAdd(One, ExpF(RMul(cc, RSub(v2, v1)))))

\* scalar branch: 1 / (1 + np.exp(-1 * choice_consistency * (v1 - v2)))
TwoOutcomePrbScalar(v1, v2, cc) ==
  RDiv(One, RAdd(One, ExpF(RMul(RMul(RInt(-1), cc), RSub(v1, v2)))))

\* two_outcome_choice on rows of (v1, v2): numpy and polars both evaluate
\* the chosen branch element-wise.  Returns, per row, <<outcome, prb>>.
two_outcome_choice(kind, rows, cc) ==
  [j \in Seq1(Len(rows)) |->
     LET prb == IF IsPolars(kind)
                THEN TwoOutcomePrbExpr(rows[j][1], rows[j][2], cc)
                ELSE TwoOutcomePrbScalar(rows[j][1], rows[j][2], cc)
     IN  <<WhenAtLeastHalf(prb), prb>>]

\* labels = [f"outcome_{i + 1}" for i in range(len(values))], by index
Label(i) == <<"outcome", i>>
NoOutcome == <<"null">>
IndexError == <<"IndexError">>

RECURSIVE RSum(_, _)
RSum(s, n) == IF n = 0 THEN RInt(0) ELSE RAdd(RSum(s, n - 1), s[n])

\* softmax of one instance: exp(cc * v_i) / sum_j exp(cc * v_j)
Softmax(vals, cc) ==
  LET exps == [i \in Seq1(Len(vals)) |-> ExpF(RMul(vals[i], cc))] \o <<>>
      sum_exps == RSum(exps, Len(exps))
  IN  [i \in Seq1(Len(vals)) |-> RDiv(exps[i], sum_exps)] \o <<>>

\* pl.max_horizontal(probs) / the maximum np.argmax looks for
RECURSIVE RMax(_, _)
RMax(s, n) ==
  IF n = 1 THEN s[1]
  ELSE LET m == RMax(s, n - 1) IN IF RLt(m, s[n]) THEN s[n] ELSE m

\* np.argmax: the first index holding the maximum
ArgMax(s) ==
  LET mx == RMax(s, Len(s))
  IN  CHOOSE i \in Seq1(Len(s)) : s[i] = mx /\ \A h \in 1 .. i - 1 : s[h] # mx

\* Variant: every option compared on its own against all the others: no
\* branch holds when two options share the maximum
WhenThenStrict(probs, choice_prb) ==
  LET hits == {i \in Seq1(Len(probs)) :
                 \A h \in Seq1(Len(probs)) \ {i} : RLt(probs[h], probs[i])}
  IN  IF hits = {} THEN NoOutcome ELSE Label(CHOOSE i \in hits : TRUE)

\* pl.when(probs[0] == choice_prb).then(labels[0]).when(probs[1] == ...
\*   ... .otherwise(pl.lit(None)): the first branch whose condition holds
WhenThenChain(probs, choice_prb) ==
  LET hits == {i \in Seq1(Len(probs)) : probs[i] = choice_prb}
  IN  IF hits = {} THEN NoOutcome
      ELSE Label(CHOOSE i \in hits : \A h \in hits : i <= h)

\* expression branch of multi_outcome_choice on one row
MultiExprRow(vals, cc) ==
  LET probs == Softmax(vals, cc)
      choice_prb == RMax(probs, Len(probs))
  IN  <<WhenThenChain(probs, choice_prb), choice_prb>>

\* scalar branch of multi_outcome_choice on one instance (a 1-d vals_arr)
MultiScalarOne(vals, cc) ==
  LET probs == Softmax(vals, cc)
      max_idx == ArgMax(probs)
  IN  <<Label(max_idx), probs[max_idx]>>

\* scalar branch on numpy columns: vals_arr is 2-d, (options x rows);
\* np.sum(exps) sums every entry, np.argmax returns an index into the
\* flattened array, and probs[max_idx], labels[max_idx] index the options.
MultiScalarBatch(rows, cc) ==
  LET n == Len(rows[1])
      m == Len(rows)
      flat == [f \in Seq1(n * m) |->
                 ExpF(RMul(rows[((f - 1) % m) + 1][((f - 1) \div m) + 1], cc))] \o <<>>
      total == RSum(flat, n * m)
      probs == [f \in Seq1(n * m) |-> RDiv(flat[f], total)] \o <<>>
      max_idx == ArgMax(probs)
  IN  IF max_idx > n THEN IndexError
      ELSE [j \in Seq1(m) |->
              <<Label(max_idx), probs[(max_idx - 1) * m + j]>>]

\* multi_outcome_choice on rows of N values each.  Returns, per row,
\* <<outcome, prb>>, or IndexError.
multi_outcome_choice(kind, rows, cc) ==
  IF IsPolars(kind)
  THEN [j \in Seq1(Len(rows)) |-> MultiExprRow(rows[j], cc)]
  ELSE IF kind = "scalar"
  THEN [j \in Seq1(Len(rows)) |-> MultiScalarOne(rows[j], cc)]
  ELSE MultiScalarBatch(rows, cc)

\* -------------------------------------------------------------- valuation

\* hyperbolic_discount_sv: m / (1 + k * cost)
hyperbolic_discount_sv(m, cost, k) == RDiv(m, RAdd(One, RMul(k, cost)))

\* -------------------------------------------------------------------- fit

\* np.clip(pred_prbs, 1e-10, 1 - 1e-10), the bounds scaled to 1/ClipDen
ClipLo == Rat(1, ClipDen)
ClipHi == Rat(ClipDen - 1, ClipDen)
Clip(p) == IF RLt(p, ClipLo) THEN ClipLo ELSE IF RLt(ClipHi, p) THEN ClipHi ELSE p

\* Variant: the log-domain parameter used as it is, without np.exp
RawParam(log_param) == RInt(log_param)

\* k = np.exp(log_k); choice_consistency = np.exp(log_choice_consistency)
ExpParam(log_param) == ExpF(RInt(log_param))

\* pred_prbs of neg_log_likelihood: the second component of
\* two_outcome_choice(sv1, sv2, choice_consistency) on the numpy arrays
PredPrbs(arrays, k, cc) ==
  LET rows == [i \in Seq1(Len(arrays)) |->
                 <<hyperbolic_discount_sv(RInt(arrays[i].a1), RInt(arrays[i].c1), k),
                   hyperbolic_discount_sv(RInt(arrays[i].a2), RInt(arrays[i].c2), k)>>]
      out == two_outcome_choice("ndarray", rows, cc)
  IN  [i \in Seq1(Len(arrays)) |-> Clip(out[i][2])] \o <<>>

\* choices * np.log(pred_prbs) + (1 - choices) * np.log(1 - pred_prbs)
LogLikelihoodTerm(choice, prb) ==
  choice * LogF(prb) + (1 - choice) * LogF(RSub(One, prb))

RECURSIVE ISum(_, _)
ISum(s, n) == IF n = 0 THEN 0 ELSE ISum(s, n - 1) + s[n]

\* one evaluation of neg_log_likelihood(params): the parameters it used,
\* the per-observation log-likelihoods and the value -np.sum(log_likelihood)
neg_log_likelihood(arrays, params) ==
  LET k == ExpParam(params[1])
      cc == ExpParam(params[2])
      prbs == PredPrbs(arrays, k, cc)
      ll == [i \in Seq1(Len(arrays)) |->
               LogLikelihoodTerm(arrays[i].choice, prbs[i])] \o <<>>
  IN  [params |-> params, k |-> k, beta |-> cc, prbs |-> prbs,
       log_likelihood |-> ll, value |-> -ISum(ll, Len(ll))]

\* The points one iteration of the minimizer evaluates around the iterate:
\* scipy's BFGS is outside the repository; it is represented by a
\* deterministic descent on the grid of log-parameters that evaluates the
\* objective at the neighbours of the iterate and moves to the best of them.
Probes(xk) ==
  <<<<xk[1] + 1, xk[2]>>, <<xk[1] - 1, xk[2]>>,
    <<xk[1], xk[2] + 1>>, <<xk[1], xk[2] - 1>>>>

\* the first of the evaluations with the least value
BestOf(es) ==
  es[CHOOSE i \in Seq1(Len(es)) :
       /\ \A h \in Seq1(Len(es)) : es[i].value <= es[h].value
       /\ \A h \in 1 .. i - 1 : es[h].value > es[i].value]

NaN == <<"nan">>

\* lines 61-69: vcv = result.hess_inv; the standard errors are the square
\* roots of its diagonal and the entropy its determinant; any exception
\* falls back to NaN.  The matrix itself is opaque to the model.
Covariance(hess_inv) ==
  IF hess_inv = "ndarray"
  THEN [stderr_k |-> <<"sqrt", "vcv[0,0]">>,
        stderr_beta |-> <<"sqrt", "vcv[1,1]">>,
        entropy |-> <<"det", "vcv">>]
  ELSE [stderr_k |-> NaN, stderr_beta |-> NaN, entropy |-> NaN]

\* "AIC": 4 + (2 * result.fun), in units of 1/LogUnit
AIC(fun) == 4 * LogUnit + 2 * fun

\* Variant: the uncertainty fields left out when the covariance is missing
FitResultWithoutNaN(res_x, res_fun, res_success, hess_inv) ==
  IF hess_inv = "ndarray"
  THEN [k |-> ExpParam(res_x[1]), beta |-> ExpParam(res_x[2]),
        k_se |-> Covariance(hess_inv).stderr_k,
        beta_se |-> Covariance(hess_inv).stderr_beta,
        negative_log_likelihood |-> res_fun, AIC |-> AIC(res_fun),
        entropy |-> Covariance(hess_inv).entropy, success |-> res_success]
  ELSE [k |-> ExpParam(res_x[1]), beta |-> ExpParam(res_x[2]),
        negative_log_likelihood |-> res_fun, AIC |-> AIC(res_fun),
        success |-> res_success]

\* lines 58-80: the dictionary fit_hyperbolic_discount returns
FitResult(res_x, res_fun, res_success, hess_inv) ==
  LET cov == Covariance(hess_inv)
  IN  [k |-> ExpParam(res_x[1]),
       beta |-> ExpParam(res_x[2]),
       k_se |-> cov.stderr_k,
       beta_se |-> cov.stderr_beta,
       negative_log_likelihood |-> res_fun,
       AIC |-> AIC(res_fun),
       entropy |-> cov.entropy,
       success |-> res_success]

\* ------------------------------------------------------------ orchestrator

\* main.py line 42: configure_optimization(objective="-entropy")
ObjectiveMetric == "entropy"
\* main.py lines 44-54: configure_metrics
ConfiguredMetrics ==
  {"k", "k_se", "beta", "beta_se", "negative_log_likelihood", "AIC", "success"}

\* ------------------------------------------------------------------- state

VARIABLES
  call,       \* a call of a choice rule: its arguments and what it returned
  dataset,    \* the caller's a1, c1, a2, c2, choices, as a sequence of observations
  given,      \* the dataset as it was when the caller passed it to the fit
  arrays,     \* the fit's np.array copies of its arguments
  pc,         \* where the fit is: "idle", "minimize", "finish", "returned"
  xk,         \* the minimizer's iterate (log_k, log_choice_consistency)
  fx,         \* the objective at the iterate
  iter,       \* iterations the minimizer has made
  evals,      \* the evaluations of neg_log_likelihood of the latest step
  success,    \* result.success of the minimizer, once it has finished
  result,     \* what the fit returned to its caller: <<>> or <<FitResult>>
  remembered, \* an earlier call the caller kept, <<>> or <<[dataset, result]>>
  hessInv,    \* what result.hess_inv is: "ndarray", or an object that cannot be indexed
  mpc,        \* where main.py is
  client      \* the Ax client's trials: parameters, status, raw_data

fitVars == <<arrays, pc, xk, fx, iter, evals, success, result>>
mainVars == <<mpc, client>>
vars == <<call, dataset, given, arrays, pc, xk, fx, iter, evals, success,
          result, remembered, hessInv, mpc, client>>

NoCall == [fn |-> "none"]

\* ----------------------------------------------- the choice rules, called

\* the inputs the choice rules are exercised on
ValueNumerators == -1 .. 1
Values == {Rat(n, ValueGrid) : n \in ValueNumerators}
Betas == {RInt(b) : b \in 1 .. MaxBeta}
BatchRows == 1 .. 2
BatchSizes(kind) == IF kind = "scalar" THEN {1} ELSE BatchRows
TupleRows(n, m) == [Seq1(m) -> [Seq1(n) -> Values]]

\* a call a caller may make: the rule, how the values arrive, the values
PendingCall(c) ==
  \E kind \in Kinds, cc \in Betas :
    \E m \in BatchSizes(kind) :
      \/ \E rows \in TupleRows(2, m) :
           c = [fn |-> "two_outcome_choice", kind |-> kind, rows |-> rows,
                cc |-> cc, out |-> <<"pending">>]
      \/ \E n \in 1 .. MaxOptions :
           \E rows \in TupleRows(n, m) :
             c = [fn |-> "multi_outcome_choice", kind |-> kind, rows |-> rows,
                  cc |-> cc, out |-> <<"pending">>]

FitIdle ==
  /\ dataset = <<>>
  /\ given = <<>>
  /\ arrays = <<>>
  /\ pc = "idle"
  /\ xk = <<InitLogK, InitLogBeta>>
  /\ fx = 0
  /\ iter = 0
  /\ evals = {}
  /\ success = FALSE
  /\ result = <<>>
  /\ remembered = <<>>

MainIdle == mpc = "idle" /\ client = <<>>

InitChoice ==
  /\ PendingCall(call)
  /\ FitIdle
  /\ hessInv = "ndarray"
  /\ MainIdle

\* the pairwise rule evaluates the pending call
TwoOutcomeCall ==
  /\ call.fn = "two_outcome_choice"
  /\ call.out = <<"pending">>
  /\ call' = [call EXCEPT !.out = two_outcome_choice(call.kind, call.rows, call.cc)]
  /\ UNCHANGED <<dataset, given, fitVars, remembered, hessInv, mainVars>>

\* the multi-alternative rule evaluates the pending call
MultiOutcomeCall ==
  /\ call.fn = "multi_outcome_choice"
  /\ call.out = <<"pending">>
  /\ call' = [call EXCEPT !.out = multi_outcome_choice(call.kind, call.rows, call.cc)]
  /\ UNCHANGED <<dataset, given, fitVars, remembered, hessInv, mainVars>>

NextChoice == TwoOutcomeCall \/ MultiOutcomeCall

SpecChoice == InitChoice /\ [][NextChoice]_vars

\* ------------------------------------------------- fit_hyperbolic_discount

\* the observations datasets are made of: amount and delay of the two
\* options and the choice, 0 (first option) or 1 (second option)
Observations ==
  {[a1 |-> 1, c1 |-> 1, a2 |-> 2, c2 |-> 8, choice |-> 1],
   [a1 |-> 1, c1 |-> 1, a2 |-> 2, c2 |-> 1, choice |-> 0]}
\* an observation whose label is out of range
BadObservation == [a1 |-> 1, c1 |-> 1, a2 |-> 2, c2 |-> 8, choice |-> 2]

\* Variant: the minimizer started where the previous call left it
initial_guess_warm == xk

\* initial_guess = [np.log(0.01), np.log(1.0)]
initial_guess == <<InitLogK, InitLogBeta>>

\* lines 14-57, up to the minimizer's first evaluation: the arguments are
\* copied into numpy arrays and the minimizer starts at initial_guess
FitCall(ds) ==
  /\ given' = ds
  /\ arrays' = ds
  /\ xk' = initial_guess
  /\ \E e \in {neg_log_likelihood(ds, initial_guess)} :
       fx' = e.value /\ evals' = {e}
  /\ iter' = 0
  /\ success' = FALSE
  /\ result' = <<>>
  /\ pc' = "minimize"

\* one iteration of minimize(neg_log_likelihood, initial_guess, method="BFGS"):
\* it evaluates the objective around the iterate; without a lower value it
\* has converged; at the iteration cap it stops without success
Iterate ==
  /\ pc = "minimize"
  /\ LET es == [i \in 1 .. 4 |-> neg_log_likelihood(arrays, Probes(xk)[i])] \o <<>>
         best == BestOf(es)
     IN  /\ evals' = {es[i] : i \in 1 .. 4}
         /\ IF best.value < fx
            THEN /\ xk' = best.params
                 /\ fx' = best.value
                 /\ iter' = iter + 1
                 /\ IF iter + 1 >= MaxIter
                    THEN success' = FALSE /\ pc' = "finish"
                    ELSE success' = success /\ pc' = "minimize"
            ELSE /\ success' = TRUE
                 /\ pc' = "finish"
                 /\ UNCHANGED <<xk, fx, iter>>
  /\ UNCHANGED <<call, dataset, given, arrays, result, remembered, hessInv, mainVars>>

\* lines 58-80: the point estimates, the covariance and the returned record
FitFinish ==
  /\ pc = "finish"
  /\ result' = <<FitResult(xk, fx, success, hessInv)>>
  /\ pc' = "returned"
  /\ UNCHANGED <<call, dataset, given, arrays, xk, fx, iter, evals, success,
                 remembered, hessInv, mainVars>>

\* a caller passes a dataset to the fit; a remembered call ages by one call,
\* up to "two or more calls ago"
CallerCall ==
  /\ pc \in {"idle", "returned"}
  /\ \E n \in 0 .. MaxObs :
       \E ds \in [Seq1(n) -> Observations] \cup {<<BadObservation>>} :
         /\ dataset' = ds
         /\ FitCall(ds)
  /\ remembered' = IF remembered = <<>> THEN <<>>
                   ELSE <<[remembered[1] EXCEPT
                             !.calls_since = IF @ < 2 THEN @ + 1 ELSE 2]>>
  /\ UNCHANGED <<call, hessInv, mainVars>>

\* a caller keeps the dataset and the result of the call that just returned
CallerRemember ==
  /\ pc = "returned"
  /\ remembered = <<>>
  /\ remembered' = <<[dataset |-> dataset, result |-> result[1], calls_since |-> 0]>>
  /\ UNCHANGED <<call, dataset, given, fitVars, hessInv, mainVars>>

Init ==
  /\ call = NoCall
  /\ FitIdle
  /\ hessInv \in {"ndarray", "unsubscriptable"}
  /\ MainIdle

Next == CallerCall \/ Iterate \/ FitFinish \/ CallerRemember

Spec == Init /\ [][Next]_vars

\* ------------------------------------------------------------------ main.py

\* lines 84-88: the lists handed to the fit are those of preexisting_trials
Parameters(obs) ==
  [amount_1 |-> obs.a1, cost_1 |-> obs.c1, amount_2 |-> obs.a2, cost_2 |-> obs.c2]

\* Variant: the loop left after its first trial
LoopDoneAfterFirst == Len(client) >= 1 \/ Len(dataset) = 0

\* line 103: the for loop has gone through every preexisting trial
LoopDone == Len(client) = Len(dataset)

\* line 109: raw_data=result
RawData == result[1]

\* line 91: result = fit_hyperbolic_discount(a1_list, c1_list, a2_list, c2_list, choices)
MainFit ==
  /\ mpc = "fit"
  /\ pc = "idle"
  /\ FitCall(dataset)
  /\ mpc' = "loop"
  /\ UNCHANGED <<call, dataset, remembered, hessInv, client>>

\* line 105: trial_index = client.attach_trial(parameters=parameters)
AttachTrial ==
  /\ mpc = "loop"
  /\ pc = "returned"
  /\ ~LoopDone
  /\ client' = Append(client, [parameters |-> Parameters(dataset[Len(client) + 1]),
                               status |-> "running", raw_data |-> <<>>])
  /\ mpc' = "complete"
  /\ UNCHANGED <<call, dataset, given, fitVars, remembered, hessInv>>

\* lines 107-110: client.complete_trial(trial_index=trial_index, raw_data=result)
CompleteTrial ==
  /\ mpc = "complete"
  /\ client' = [client EXCEPT ![Len(client)] =
                  [@ EXCEPT !.status = "completed", !.raw_data = <<RawData>>]]
  /\ mpc' = "loop"
  /\ UNCHANGED <<call, dataset, given, fitVars, remembered, hessInv>>

\* line 114: client.get_next_trials(max_trials=1)
GetNextTrials ==
  /\ mpc = "loop"
  /\ pc = "returned"
  /\ LoopDone
  /\ mpc' = "done"
  /\ UNCHANGED <<call, dataset, given, fitVars, remembered, hessInv, client>>

\* the script starts with its preexisting trials, before line 91
InitMain ==
  /\ call = NoCall
  /\ \E n \in 0 .. MaxObs : dataset \in [Seq1(n) -> Observations]
  /\ given = <<>>
  /\ arrays = <<>>
  /\ pc = "idle"
  /\ xk = <<InitLogK, InitLogBeta>>
  /\ fx = 0
  /\ iter = 0
  /\ evals = {}
  /\ success = FALSE
  /\ result = <<>>
  /\ remembered = <<>>
  /\ hessInv \in {"ndarray", "unsubscriptable"}
  /\ mpc = "fit"
  /\ client = <<>>

NextMain ==
  MainFit \/ Iterate \/ FitFinish \/ AttachTrial \/ CompleteTrial \/ GetNextTrials

SpecMain == InitMain /\ [][NextMain]_vars

\* ------------------------------------------------ claims on the choice rules

Returned(fn) == call.fn = fn /\ call.out # <<"pending">>

\* the lowest index whose probability no other probability exceeds
LowestMaxIndex(probs) ==
  CHOOSE i \in Seq1(Len(probs)) :
    /\ \A h \in Seq1(Len(probs)) : RLe(probs[h], probs[i])
    /\ \A h \in 1 .. i - 1 : \E g \in Seq1(Len(probs)) : RLt(probs[h], probs[g])

\* C5: on a non-empty collection of subjective values, in the scalar path and
\* in the expression path, multi_outcome_choice returns exactly one label,
\* never the null outcome, and the label is that of the lowest-index option
\* whose probability equals the maximum probability.
C5_LowestIndexArgmax ==
  (Returned("multi_outcome_choice") /\ call.kind \in {"scalar", "expr"}) =>
    \A j \in Seq1(Len(call.rows)) :
      /\ call.out[j][1] # NoOutcome
      /\ call.out[j][1] = Label(LowestMaxIndex(Softmax(call.rows[j], call.cc)))
      /\ call.out[j][2] = Softmax(call.rows[j], call.cc)[LowestMaxIndex(Softmax(call.rows[j], call.cc))]

\* C5 witness: the expression path has evaluated a row of three identical
\* values next to a row whose maximum is not at index 1.
C5_Witness ==
  /\ Returned("multi_outcome_choice")
  /\ call.kind = "expr"
  /\ Len(call.rows) = 2
  /\ Len(call.rows[1]) = 3
  /\ \A i \in 1 .. 3 : call.rows[1][i] = call.rows[1][1]
  /\ call.out[1][1] = Label(1)
  /\ call.out[2][1] = Label(3)

\* C6 as stated: two_outcome_choice returns outcome_1 exactly when p1 >= 0.5,
\* and exactly when v1 >= v2.
C6_OutcomeOneIffV1AtLeastV2 ==
  Returned("two_outcome_choice") =>
    \A j \in Seq1(Len(call.rows)) :
      /\ (call.out[j][1] = "outcome_1") = RGe(call.out[j][2], Half)
      /\ (call.out[j][1] = "outcome_1") = RGe(call.rows[j][1], call.rows[j][2])

\* C6 amended: two_outcome_choice returns outcome_1 exactly when the computed
\* p1 >= 0.5 and outcome_2 otherwise; v1 >= v2 always yields outcome_1 (v1 = v2
\* gives p1 = 0.5); with v1 < v2 it yields outcome_1 only when the rounded
\* exponential of the difference is 1, so that p1 is exactly 0.5.
C6_OutcomeOneIffHalf ==
  Returned("two_outcome_choice") =>
    \A j \in Seq1(Len(call.rows)) :
      /\ call.out[j][1] \in {"outcome_1", "outcome_2"}
      /\ (call.out[j][1] = "outcome_1") = RGe(call.out[j][2], Half)
      /\ RGe(call.rows[j][1], call.rows[j][2]) => call.out[j][1] = "outcome_1"
      /\ call.rows[j][1] = call.rows[j][2] => call.out[j][2] = Half
      /\ (RLt(call.rows[j][1], call.rows[j][2]) /\ call.out[j][1] = "outcome_1")
           => call.out[j][2] = Half

\* C6 witness: a tie v1 = v2 returned outcome_1 with p1 = 0.5, beside a row
\* with v1 < v2 that returned outcome_2.
C6_Witness ==
  /\ Returned("two_outcome_choice")
  /\ Len(call.rows) = 2
  /\ call.rows[1][1] = call.rows[1][2]
  /\ call.out[1] = <<"outcome_1", Half>>
  /\ RLt(call.rows[2][1], call.rows[2][2])
  /\ call.out[2][1] = "outcome_2"

\* C7: for both rules a batch (numpy arrays or polars columns) gives, for every
\* element, the probability and the label that the scalar path gives for that
\* element alone.
C7_BatchAgreesWithScalar ==
  (call.out # <<"pending">> /\ call.kind \in {"ndarray", "expr"}) =>
    /\ call.out # IndexError
    /\ \A j \in Seq1(Len(call.rows)) :
         call.out[j] =
           IF call.fn = "two_outcome_choice"
           THEN two_outcome_choice("scalar", <<call.rows[j]>>, call.cc)[1]
           ELSE multi_outcome_choice("scalar", <<call.rows[j]>>, call.cc)[1]

\* ------------------------------------------------------ claims on the fit

\* the pairwise rule's p1 for observation i at the parameters of evaluation e
P1(e, i) ==
  TwoOutcomePrbScalar(
    hyperbolic_discount_sv(RInt(arrays[i].a1), RInt(arrays[i].c1), e.k),
    hyperbolic_discount_sv(RInt(arrays[i].a2), RInt(arrays[i].c2), e.k),
    e.beta)

\* the predicted probability of the option observation i records as chosen:
\* choice 0 is the first option (a1, c1), choice 1 the second (a2, c2)
PObserved(e, i) ==
  IF arrays[i].choice = 1 THEN RSub(One, P1(e, i)) ELSE P1(e, i)

\* C1: in every evaluation of the negative log-likelihood every observation
\* with label 0 or 1 contributes -log of the (clipped) predicted probability
\* of the option that was observed, and the value is the sum of these.
C1_ObservedOptionLikelihood ==
  \A e \in evals :
    /\ \A i \in Seq1(Len(arrays)) :
         arrays[i].choice \in {0, 1} =>
           -e.log_likelihood[i] = -LogF(Clip(PObserved(e, i)))
    /\ e.value = -ISum(e.log_likelihood, Len(arrays))

\* C2: a returned FitResult of a fit whose minimizer did not converge or whose
\* covariance extraction raised has success = false and NaN k_se, beta_se and
\* entropy, with k, beta and the likelihood still reported; and in every
\* returned FitResult success = false implies the three are NaN.
C2_FailureMeansNaN ==
  result # <<>> =>
    /\ (~success \/ hessInv # "ndarray") =>
         /\ result[1].success = FALSE
         /\ result[1].k_se = NaN /\ result[1].beta_se = NaN /\ result[1].entropy = NaN
    /\ result[1].success = FALSE =>
         (result[1].k_se = NaN /\ result[1].beta_se = NaN /\ result[1].entropy = NaN)
    /\ result[1].k = ExpParam(xk[1]) /\ result[1].beta = ExpParam(xk[2])
    /\ result[1].negative_log_likelihood = fx

\* an empty observation set, or a label other than 0 and 1
Malformed(ds) == ds = <<>> \/ \E i \in Seq1(Len(ds)) : ds[i].choice \notin {0, 1}

\* C3: a malformed dataset is rejected before the optimizer is invoked: the
\* negative log-likelihood is never evaluated on it, the minimizer never runs
\* and no FitResult is returned.
C3_MalformedRejected ==
  (pc # "idle" /\ Malformed(given)) =>
    (evals = {} /\ pc \notin {"minimize", "finish"} /\ result = <<>>)

FitResultKeys ==
  {"k", "beta", "k_se", "beta_se", "negative_log_likelihood", "AIC", "entropy", "success"}

\* C4: every returned FitResult, with the covariance extracted or not, holds
\* exactly the eight keys, which are the names main.py configures as its
\* objective and metrics.
C4_EightKeys ==
  result # <<>> =>
    /\ DOMAIN result[1] = FitResultKeys
    /\ DOMAIN result[1] = ConfiguredMetrics \cup {ObjectiveMetric}

\* C4 witness: a FitResult was returned on the covariance-failure path
C4_Witness ==
  /\ result # <<>>
  /\ hessInv = "unsubscriptable"
  /\ result[1].entropy = NaN
  /\ iter > 0

C9_StatelessFit ==
  /\ (pc = "minimize" /\ iter = 0) => xk = <<InitLogK, InitLogBeta>>
  /\ (remembered # <<>> /\ result # <<>> /\ remembered[1].dataset = dataset)
       => remembered[1].result = result[1]
  /\ \A e \in evals : e.value = neg_log_likelihood(given, e.params).value
  /\ pc # "idle" => (dataset = given /\ arrays = given)

\* C9 witness: the dataset of a call remembered two or more calls ago has
\* been fitted again, after a fit that moved the minimizer, and has returned
C9_Witness ==
  /\ remembered # <<>>
  /\ remembered[1].calls_since = 2
  /\ remembered[1].dataset = dataset
  /\ Len(dataset) = 2
  /\ result # <<>>
  /\ iter > 0

\* ---------------------------------------------------- claims on main.py

====
